---------------------------- MODULE Spec2Model ----------------------------
(***************************************************************************)
(* dotenv-cpp: loading NAME=value lines of a file into the process         *)
(* environment (include/laserpants/dotenv/dotenv.h).                       *)
(*                                                                         *)
(* A std::string is a sequence of one-character strings.  Positions are    *)
(* the 0-based positions of the C++ code; npos is the value std::string    *)
(* returns for "not found".  The process environment is a function from    *)
(* the names that are set to their values: std::getenv(name) is NULL       *)
(* exactly when name is outside its domain.                                *)
(***************************************************************************)
EXTENDS Integers, Sequences, FiniteSets, TLC

VARIABLES
    env,       \* the process environment
    env0,      \* the process environment when the program started (never written)
    flags,     \* the flags argument of dotenv::init
    file,      \* the file: whether it can be opened, and its lines
    i,         \* do_init: the line counter i (1-based)
    out,       \* what was written to std::cout, one record per message
    pc,        \* position of the program
    ex,        \* expand: its locals while it runs on its own, else NoCall
    ret        \* the value the last call of getenv or expand returned, else NoCall

vars == <<env, env0, flags, file, i, out, pc, ex, ret>>

-----------------------------------------------------------------------------
(* Bounds of the model. *)

MaxLines == 2      \* lines of a file of the loader specification
MaxFrags == 2      \* fragments a generated value is made of
MaxExpandFrags == 3   \* fragments of a string expand is run on by itself

-----------------------------------------------------------------------------
(* std::string *)

npos == -1

NoCall == [none |-> TRUE]
NoFile == [opens |-> FALSE, lines |-> <<>>]

FileOf(lines) == [opens |-> TRUE, lines |-> lines]

SetMin(S) == CHOOSE m \in S : \A k \in S : m <= k

IntMin(a, b) == IF a <= b THEN a ELSE b

\* str.find(pat, pos): the first position >= pos where pat occurs, or npos
Find(str, pat, pos) ==
    IF pos = npos
    THEN npos
    ELSE LET hits == { k \in pos .. (Len(str) - Len(pat)) :
                          SubSeq(str, k + 1, k + Len(pat)) = pat }
         IN  IF hits = {} THEN npos ELSE SetMin(hits)

\* str.substr(pos, n), for pos <= str.size()
Substr(str, pos, n) == SubSeq(str, pos + 1, IntMin(pos + n, Len(str)))

\* str.substr(pos), for pos <= str.size()
SubstrFrom(str, pos) == SubSeq(str, pos + 1, Len(str))

-----------------------------------------------------------------------------
(* The process environment *)

\* std::getenv(name) != NULL
IsSet(e, name) == name \in DOMAIN e

\* setenv that takes a variable with the empty value for one that does not exist
setenv_Truthy(e, name, value, overwrite) ==
    IF name = <<>> \/ (\E k \in 1 .. Len(name) : name[k] = "=")
    THEN e
    ELSE IF IsSet(e, name) /\ e[name] # <<>> /\ overwrite = 0
    THEN e
    ELSE [n \in DOMAIN e \cup {name} |-> IF n = name THEN value ELSE e[n]]

\* setenv(name, value, overwrite): fails (EINVAL) on an empty name or a name
\* holding '='; keeps an existing variable when overwrite is 0
setenv(e, name, value, overwrite) ==
    IF name = <<>> \/ (\E k \in 1 .. Len(name) : name[k] = "=")
    THEN e
    ELSE IF IsSet(e, name) /\ overwrite = 0
    THEN e
    ELSE [n \in DOMAIN e \cup {name} |-> IF n = name THEN value ELSE e[n]]

Preserve == 1
OptionsNone == 0

\* the overwrite argument that does not look at the flags
OverwriteArg_Always(f) == IF f % 2 = 1 THEN 1 ELSE 1

\* ~flags & dotenv::Preserve
OverwriteArg(f) == IF f % 2 = 1 THEN 0 ELSE 1

\* getenv that returns the default for a variable with the empty value
getenv_EmptyIsUnset(e, name, def) ==
    IF IsSet(e, name) /\ e[name] # <<>> THEN e[name] ELSE def

\* dotenv::getenv(name, def)
getenv(e, name, def) == IF IsSet(e, name) THEN e[name] ELSE def

-----------------------------------------------------------------------------
(* dotenv::strip_quotes *)

\* strip_quotes that goes on stripping while quotes enclose the string
RECURSIVE strip_quotes_AllLayers(_)
strip_quotes_AllLayers(str) ==
    LET len == Len(str) IN
    IF len < 2
    THEN str
    ELSE LET first == str[1]
             last  == str[len]
         IN  IF first = last /\ (first = "\"" \/ first = "'")
             THEN strip_quotes_AllLayers(Substr(str, 1, len - 2))
             ELSE str

strip_quotes(str) ==
    LET len == Len(str) IN
    IF len < 2
    THEN str
    ELSE LET first == str[1]
             last  == str[len]
         IN  IF first = last /\ (first = "\"" \/ first = "'")
             THEN Substr(str, 1, len - 2)
             ELSE str

-----------------------------------------------------------------------------
(* dotenv::expand *)

Undefined(var, iline) == [kind |-> "undefined", var |-> var, line |-> iline]
IllFormed(iline, line) == [kind |-> "illformed", line |-> iline, text |-> line]

\* the locals of expand on entry
ExpandEntry(iline, str) ==
    [ iline |-> iline, str |-> str, expanded |-> <<>>, pos |-> 0, pre_pos |-> 0,
      nvar |-> 0, finished |-> FALSE, cout |-> <<>> ]

\* the loop iteration that does not count a reference it could not expand
ExpandIter_MissUncounted(s, e) ==
    LET pos1 == Find(s.str, <<"$", "{">>, s.pos) IN
    IF pos1 # npos
    THEN LET expanded1 == s.expanded \o Substr(s.str, s.pre_pos, pos1 - s.pre_pos)
             p1   == pos1
             pos2 == Find(s.str, <<"}">>, pos1)
         IN  IF pos2 # npos
             THEN LET var  == Substr(s.str, p1, pos2 - p1 + 1)
                      name == Substr(var, 2, Len(var) - 3)
                  IN  IF IsSet(e, name)
                      THEN [s EXCEPT !.pos = pos2, !.pre_pos = pos2 + 1,
                                     !.expanded = expanded1 \o e[name]]
                      ELSE [s EXCEPT !.pos = pos2, !.pre_pos = pos2 + 1,
                                     !.expanded = expanded1,
                                     !.cout = Append(s.cout, Undefined(var, s.iline))]
             ELSE [s EXCEPT !.pos = npos, !.expanded = expanded1,
                            !.nvar = s.nvar + 1]
    ELSE [s EXCEPT !.pos = npos, !.finished = TRUE]

\* the loop iteration that expands a substituted value that is itself a reference
ExpandIter_Reexpand(s, e) ==
    LET pos1 == Find(s.str, <<"$", "{">>, s.pos) IN
    IF pos1 # npos
    THEN LET expanded1 == s.expanded \o Substr(s.str, s.pre_pos, pos1 - s.pre_pos)
             p1   == pos1
             pos2 == Find(s.str, <<"}">>, pos1)
         IN  IF pos2 # npos
             THEN LET var  == Substr(s.str, p1, pos2 - p1 + 1)
                      name == Substr(var, 2, Len(var) - 3)
                  IN  IF IsSet(e, name)
                      THEN LET v == e[name]
                               inner == Substr(v, 2, Len(v) - 3)
                               again == /\ Len(v) >= 3
                                        /\ Substr(v, 0, 2) = <<"$", "{">>
                                        /\ v[Len(v)] = "}"
                                        /\ IsSet(e, inner)
                           IN  [s EXCEPT !.pos = pos2, !.pre_pos = pos2 + 1,
                                         !.expanded = expanded1 \o (IF again THEN e[inner] ELSE v),
                                         !.nvar = (s.nvar + 1) - 1]
                      ELSE [s EXCEPT !.pos = pos2, !.pre_pos = pos2 + 1,
                                     !.expanded = expanded1,
                                     !.nvar = s.nvar + 1,
                                     !.cout = Append(s.cout, Undefined(var, s.iline))]
             ELSE [s EXCEPT !.pos = npos, !.expanded = expanded1,
                            !.nvar = s.nvar + 1]
    ELSE [s EXCEPT !.pos = npos, !.finished = TRUE]

\* the loop iteration that keeps the position when no '}' follows the "${"
ExpandIter_NoNpos(s, e) ==
    LET pos1 == Find(s.str, <<"$", "{">>, s.pos) IN
    IF pos1 # npos
    THEN LET expanded1 == s.expanded \o Substr(s.str, s.pre_pos, pos1 - s.pre_pos)
             p1   == pos1
             pos2 == Find(s.str, <<"}">>, pos1)
         IN  IF pos2 # npos
             THEN LET var  == Substr(s.str, p1, pos2 - p1 + 1)
                      name == Substr(var, 2, Len(var) - 3)
                  IN  IF IsSet(e, name)
                      THEN [s EXCEPT !.pos = pos2, !.pre_pos = pos2 + 1,
                                     !.expanded = expanded1 \o e[name],
                                     !.nvar = (s.nvar + 1) - 1]
                      ELSE [s EXCEPT !.pos = pos2, !.pre_pos = pos2 + 1,
                                     !.expanded = expanded1,
                                     !.nvar = s.nvar + 1,
                                     !.cout = Append(s.cout, Undefined(var, s.iline))]
             ELSE [s EXCEPT !.pos = pos1, !.expanded = expanded1,
                            !.nvar = s.nvar + 1]
    ELSE [s EXCEPT !.pos = npos, !.finished = TRUE]

\* one iteration of the while (!finished) loop
ExpandIter(s, e) ==
    LET pos1 == Find(s.str, <<"$", "{">>, s.pos) IN
    IF pos1 # npos
    THEN LET expanded1 == s.expanded \o Substr(s.str, s.pre_pos, pos1 - s.pre_pos)
             p1   == pos1
             pos2 == Find(s.str, <<"}">>, pos1)
         IN  IF pos2 # npos
             THEN LET var  == Substr(s.str, p1, pos2 - p1 + 1)
                      name == Substr(var, 2, Len(var) - 3)
                  IN  IF IsSet(e, name)
                      THEN [s EXCEPT !.pos = pos2, !.pre_pos = pos2 + 1,
                                     !.expanded = expanded1 \o e[name],
                                     !.nvar = (s.nvar + 1) - 1]
                      ELSE [s EXCEPT !.pos = pos2, !.pre_pos = pos2 + 1,
                                     !.expanded = expanded1,
                                     !.nvar = s.nvar + 1,
                                     !.cout = Append(s.cout, Undefined(var, s.iline))]
             ELSE [s EXCEPT !.pos = npos, !.expanded = expanded1,
                            !.nvar = s.nvar + 1]
    ELSE [s EXCEPT !.pos = npos, !.finished = TRUE]

\* the result without the text after the last reference
ExpandResult_NoTail(s) ==
    [ value |-> s.expanded,
      ok    |-> (s.nvar = 0),
      cout  |-> s.cout ]

\* the result that reports success whatever was counted
ExpandResult_AlwaysOk(s) ==
    [ value |-> s.expanded \o SubstrFrom(s.str, s.pre_pos),
      ok    |-> TRUE,
      cout  |-> s.cout ]

\* what expand returns once the loop has finished
ExpandResult(s) ==
    [ value |-> s.expanded \o SubstrFrom(s.str, s.pre_pos),
      ok    |-> (s.nvar = 0),
      cout  |-> s.cout ]

RECURSIVE ExpandLoop(_, _)
ExpandLoop(s, e) == IF s.finished THEN s ELSE ExpandLoop(ExpandIter(s, e), e)

expand(iline, str, e) == ExpandResult(ExpandLoop(ExpandEntry(iline, str), e))

-----------------------------------------------------------------------------
(* dotenv::do_init *)

\* const auto name = line.substr(0, pos), pos the position of the first '='
LineName(line) == Substr(line, 0, Find(line, <<"=">>, 0))

\* the body of the while (getline(file, line)) loop, for one line
LineBody(e, f, iline, line) ==
    LET pos == Find(line, <<"=">>, 0) IN
    IF pos = npos
    THEN [env |-> e, cout |-> <<IllFormed(iline, line)>>]
    ELSE LET name == LineName(line)
             line_stripped == strip_quotes(SubstrFrom(line, pos + 1))
             p == expand(iline, line_stripped, e)
         IN  IF ~p.ok
             THEN [env |-> e, cout |-> Append(p.cout, IllFormed(iline, line))]
             ELSE [env |-> setenv(e, name, p.value, OverwriteArg(f)),
                   cout |-> p.cout]

\* file.open(filename); if (file) ...
do_init_open ==
    /\ pc = "init"
    /\ pc' = IF file.opens THEN "loop" ELSE "done"
    /\ i' = 1
    /\ UNCHANGED <<env, env0, flags, file, out, ex, ret>>

\* the loop that stops at a line with no '='
do_init_line_Break ==
    /\ pc = "loop"
    /\ i <= Len(file.lines)
    /\ LET r == LineBody(env, flags, i, file.lines[i]) IN
          /\ env' = r.env
          /\ out' = out \o r.cout
    /\ i' = i + 1
    /\ pc' = IF Find(file.lines[i], <<"=">>, 0) = npos THEN "done" ELSE pc
    /\ UNCHANGED <<env0, flags, file, ex, ret>>

\* getline succeeds: one pass through the loop body
do_init_line ==
    /\ pc = "loop"
    /\ i <= Len(file.lines)
    /\ LET r == LineBody(env, flags, i, file.lines[i]) IN
          /\ env' = r.env
          /\ out' = out \o r.cout
    /\ i' = i + 1
    /\ UNCHANGED <<env0, flags, file, pc, ex, ret>>

\* getline fails at the end of the file
do_init_eof ==
    /\ pc = "loop"
    /\ i > Len(file.lines)
    /\ pc' = "done"
    /\ UNCHANGED <<env, env0, flags, file, i, out, ex, ret>>

-----------------------------------------------------------------------------
(* Inputs *)

Cat(a, b) == a \o b

RECURSIVE Bodies(_, _)
Bodies(F, n) ==
    IF n = 0 THEN {<<>>}
    ELSE LET B == Bodies(F, n - 1) IN B \cup { Cat(b, f) : b \in B, f \in F }

Frags ==
    { <<"x">>, <<"$", "{", "A", "}">>, <<"$", "{", "B", "}">>, <<"$", "{">>,
      <<"}">>, <<"\"">>, <<"$">>, <<"=">> }

Quotes == { <<>>, <<"\"">>, <<"'">> }

Values == { Cat(Cat(q1, b), q2) : q1 \in Quotes, q2 \in Quotes, b \in Bodies(Frags, MaxFrags) }

LineNames == { <<"A">>, <<"B">>, <<>> }

Malformed == { <<>>, <<"A">>, <<"$", "{", "A", "}">> }

GenLines == { Cat(Cat(n, <<"=">>), v) : n \in LineNames, v \in Values } \cup Malformed

RECURSIVE Files(_, _)
Files(L, n) ==
    IF n = 0 THEN {<<>>}
    ELSE LET P == Files(L, n - 1) IN P \cup { Append(p, l) : p \in P, l \in L }

SeqLineValues ==
    { <<"x">>, <<"y">>, <<"$", "{", "A", "}">>, <<"$", "{", "B", "}">>,
      <<"$", "{", "A", "}", " ", "d">>, <<"x", "$", "{", "A", "}", "y">>,
      <<"$", "{", "A", "}", "$", "{", "B", "}">> }

SeqLines ==
    { Cat(Cat(n, <<"=">>), v) : n \in {<<"A">>, <<"B">>}, v \in SeqLineValues }
      \cup { <<>>, <<"A">> }

EnvNames == { <<"A">>, <<"B">> }

EnvOf(D, a, b) == [n \in D |-> IF n = <<"A">> THEN a ELSE b]

Envs ==
    { EnvOf(D, a, b) : D \in SUBSET EnvNames,
                       a \in {<<>>, <<"o">>, <<"$", "{", "B", "}">>},
                       b \in {<<"p">>} }

-----------------------------------------------------------------------------
(* The loader on files of several lines *)

InitCommon ==
    /\ env \in Envs
    /\ env0 = env
    /\ flags \in {OptionsNone, Preserve}
    /\ i = 1
    /\ out = <<>>
    /\ pc = "init"
    /\ ex = NoCall
    /\ ret = NoCall

Init ==
    /\ InitCommon
    /\ file \in { FileOf(l) : l \in Files(SeqLines, MaxLines) } \cup {NoFile}

Next == do_init_open \/ do_init_line \/ do_init_eof

Spec == Init /\ [][Next]_vars

(* The loader on every generated one-line file *)

InitLine ==
    /\ InitCommon
    /\ file \in { FileOf(<<l>>) : l \in GenLines } \cup {NoFile}

SpecLine == InitLine /\ [][Next]_vars

-----------------------------------------------------------------------------
(* expand on its own, one loop iteration at a time *)

ExpandFrags ==
    { <<"x">>, <<"A">>, <<"$", "{", "A", "}">>, <<"$", "{", "B", "}">>,
      <<"$", "{">>, <<"}">>, <<"$">> }

ExpandInputs == Bodies(ExpandFrags, MaxExpandFrags)

expand_iter ==
    /\ pc = "expand"
    /\ ~ex.finished
    /\ ex' = ExpandIter(ex, env)
    /\ UNCHANGED <<env, env0, flags, file, i, out, pc, ret>>

expand_return ==
    /\ pc = "expand"
    /\ ex.finished
    /\ ret' = ExpandResult(ex)
    /\ out' = out \o ex.cout
    /\ pc' = "returned"
    /\ UNCHANGED <<env, env0, flags, file, i, ex>>

InitExpand ==
    /\ env \in Envs
    /\ env0 = env
    /\ flags = OptionsNone
    /\ file = NoFile
    /\ i = 1
    /\ out = <<>>
    /\ pc = "expand"
    /\ \E str \in ExpandInputs : ex = ExpandEntry(1, str)
    /\ ret = NoCall

NextExpand == expand_iter \/ expand_return

SpecExpand == InitExpand /\ [][NextExpand]_vars

-----------------------------------------------------------------------------
(* dotenv::getenv on its own *)

GetenvNames == { <<"A">>, <<"B">>, <<"C">>, <<>> }

GetenvDefaults == { <<>>, <<"o">>, <<"d">>, <<"E", "H", "L", "O">> }

getenv_call ==
    /\ pc = "getenv"
    /\ \E name \in GetenvNames, def \in GetenvDefaults :
          ret' = [name |-> name, def |-> def, value |-> getenv(env, name, def)]
    /\ pc' = "returned"
    /\ UNCHANGED <<env, env0, flags, file, i, out, ex>>

InitGetenv ==
    /\ env \in Envs
    /\ env0 = env
    /\ flags = OptionsNone
    /\ file = NoFile
    /\ i = 1
    /\ out = <<>>
    /\ pc = "getenv"
    /\ ex = NoCall
    /\ ret = NoCall

NextGetenv == getenv_call

SpecGetenv == InitGetenv /\ [][NextGetenv]_vars

-----------------------------------------------------------------------------
(* Vocabulary of the properties.  These definitions read the text of a line *)
(* or of a value directly, with 1-based positions; none of them uses the    *)
(* definitions that model the code.                                         *)

HasEq(line) == \E k \in 1 .. Len(line) : line[k] = "="

FirstEq(line) == SetMin({ k \in 1 .. Len(line) : line[k] = "=" })

\* the text before the first '=' and the text after it
NameOf(line) == SubSeq(line, 1, FirstEq(line) - 1)
RawOf(line) == SubSeq(line, FirstEq(line) + 1, Len(line))

IsQuote(c) == c = "\"" \/ c = "'"

\* text with no '$' and no quote character
Literal(t) == \A k \in 1 .. Len(t) : t[k] # "$" /\ ~IsQuote(t[k])

NoQuotes(t) == \A k \in 1 .. Len(t) : ~IsQuote(t[k])

Contains(str, pat) ==
    \E k \in 0 .. (Len(str) - Len(pat)) : SubSeq(str, k + 1, k + Len(pat)) = pat

Ref(name) == <<"$", "{">> \o name \o <<"}">>

\* the ways of writing str as pre \o pat \o post
Splits(str, pat) ==
    { [pre |-> SubSeq(str, 1, k), post |-> SubSeq(str, k + Len(pat) + 1, Len(str))] :
        k \in { m \in 0 .. (Len(str) - Len(pat)) : SubSeq(str, m + 1, m + Len(pat)) = pat } }

\* the references of a value, left to right: each runs from a "${" to the
\* first '}' after it, and the next one is looked for after that '}'
RECURSIVE RefsFrom(_, _)
RefsFrom(str, k) ==
    LET starts == { a \in k .. (Len(str) - 1) : str[a] = "$" /\ str[a + 1] = "{" } IN
    IF starts = {} THEN <<>>
    ELSE LET a == SetMin(starts)
             ends == { b \in (a + 2) .. Len(str) : str[b] = "}" }
         IN  IF ends = {} THEN <<>>
             ELSE LET b == SetMin(ends)
                  IN  <<[from |-> a, to |-> b]>> \o RefsFrom(str, b + 1)

Refs(str) == RefsFrom(str, 1)

RefToken(str, r) == SubSeq(str, r.from, r.to)
RefName(str, r) == SubSeq(str, r.from + 2, r.to - 1)

Range(q) == { q[k] : k \in 1 .. Len(q) }

\* the end of the last reference of str, 0 when there is none
LastTo(str) == IF Refs(str) = <<>> THEN 0 ELSE Refs(str)[Len(Refs(str))].to

\* the positions of the "${" that no '}' follows
Dangling(str) ==
    { a \in (LastTo(str) + 1) .. (Len(str) - 1) : str[a] = "$" /\ str[a + 1] = "{" }

\* str with every reference to a set name replaced by the value of the name,
\* and everything else, the references to unset names included, as it is
RECURSIVE SubstUpTo(_, _, _)
SubstUpTo(str, e, k) ==
    IF k = 0 THEN <<>>
    ELSE LET r == Refs(str)[k]
             prevTo == IF k = 1 THEN 0 ELSE Refs(str)[k - 1].to
         IN  SubstUpTo(str, e, k - 1)
               \o SubSeq(str, prevTo + 1, r.from - 1)
               \o (IF IsSet(e, RefName(str, r)) THEN e[RefName(str, r)]
                                                ELSE RefToken(str, r))

Subst(str, e) ==
    SubstUpTo(str, e, Len(Refs(str))) \o SubSeq(str, LastTo(str) + 1, Len(str))

AllResolved(str, e) == \A r \in Range(Refs(str)) : IsSet(e, RefName(str, r))

\* do_init is about to run its loop body on line i of the file
AtLine == pc = "loop" /\ i <= Len(file.lines)
Line == file.lines[i]
\* ... and this step is that pass through the loop body
LineDone == AtLine /\ i' = i + 1

\* what this step wrote to std::cout
Said == SubSeq(out', Len(out) + 1, Len(out'))

-----------------------------------------------------------------------------
(* C1.  When a line NAME_A=V that was accepted and set is followed by a    *)
(* line NAME_B=<pre>${NAME_A}<post> (pre and post literal text), loading   *)
(* with default flags leaves NAME_B set to pre \o V \o post: the reference *)
(* resolves to the value the earlier line of the same file set.            *)

C1_ReferenceResolves ==
    [][ \A j \in 1 .. Len(file.lines) :
          ( /\ LineDone
            /\ flags = OptionsNone
            /\ j < i
            /\ HasEq(file.lines[j]) /\ HasEq(Line)
            /\ NameOf(file.lines[j]) # <<>> /\ NameOf(Line) # <<>>
            /\ Literal(RawOf(file.lines[j]))
            /\ \A k \in (j + 1) .. (i - 1) :
                  HasEq(file.lines[k]) => NameOf(file.lines[k]) # NameOf(file.lines[j]) )
          => \A sp \in Splits(RawOf(Line), Ref(NameOf(file.lines[j]))) :
                Literal(sp.pre) /\ Literal(sp.post)
                => /\ IsSet(env', NameOf(Line))
                   /\ env'[NameOf(Line)] = sp.pre \o RawOf(file.lines[j]) \o sp.post
      ]_vars

\* A=x then B=${A} d, with A holding another value before: B is "x d"
WitC1 ==
    /\ pc = "done"
    /\ flags = OptionsNone
    /\ file.lines = << <<"A", "=", "x">>, <<"B", "=", "$", "{", "A", "}", " ", "d">> >>
    /\ IsSet(env0, <<"A">>) /\ env0[<<"A">>] = <<"o">>
    /\ IsSet(env, <<"B">>) /\ env[<<"B">>] = <<"x", " ", "d">>

-----------------------------------------------------------------------------
(* C2.  A line whose value holds a reference to a name that is unset when  *)
(* the line is processed leaves the environment as it was, and a           *)
(* diagnostic with the line number and the token of the reference is       *)
(* written.                                                                *)

C2_UnresolvedNotSet ==
    [][ (LineDone /\ HasEq(Line)) =>
          LET raw == RawOf(Line) IN
          \A r \in Range(Refs(raw)) :
              ~IsSet(env, RefName(raw, r))
              => /\ env' = env
                 /\ Undefined(RefToken(raw, r), i) \in Range(Said)
      ]_vars

\* A=x${B} with B unset and A set before: A keeps its value, the diagnostic is there
WitC2 ==
    /\ pc = "done"
    /\ file.lines = << <<"A", "=", "x", "$", "{", "B", "}">> >>
    /\ ~IsSet(env0, <<"B">>)
    /\ IsSet(env0, <<"A">>) /\ env0[<<"A">>] = <<"o">>
    /\ env = env0
    /\ Undefined(<<"$", "{", "B", "}">>, 1) \in Range(out)

-----------------------------------------------------------------------------
(* C3.  A line with no '=' is skipped with a diagnostic and changes        *)
(* nothing: the environment is at every moment the one that loading the    *)
(* lines read so far without the malformed ones produces, and once loading *)
(* is over every line of the file has been read.                           *)

RECURSIVE LoadLines(_, _, _, _)
LoadLines(e, f, lines, k) ==
    IF lines = <<>> THEN e
    ELSE LoadLines(LineBody(e, f, k, Head(lines)).env, f, Tail(lines), k + 1)

WellFormedOnly(lines) == SelectSeq(lines, HasEq)

C3_MalformedSkipped ==
    (file.opens /\ pc \in {"loop", "done"}) =>
        LET n == IF pc = "done" THEN Len(file.lines) ELSE i - 1
            read == SubSeq(file.lines, 1, n)
        IN  /\ env = LoadLines(env0, flags, WellFormedOnly(read), 1)
            /\ \A j \in 1 .. n :
                  ~HasEq(file.lines[j]) => IllFormed(j, file.lines[j]) \in Range(out)

\* a malformed line, then B=x: B is loaded, the malformed line is reported
WitC3 ==
    /\ pc = "done"
    /\ file.lines = << <<"A">>, <<"B", "=", "x">> >>
    /\ ~IsSet(env0, <<"B">>)
    /\ IsSet(env, <<"B">>) /\ env[<<"B">>] = <<"x">>
    /\ out = << IllFormed(1, <<"A">>) >>

-----------------------------------------------------------------------------
(* C4.  Overwrite policy, for a line X=new that is accepted: with          *)
(* OptionsNone X holds the new value whether or not it existed; with       *)
(* Preserve an X that exists, be it with the empty value, keeps its value, *)
(* and an X that does not exist gets the new value.  The new value of a    *)
(* literal text is that text.                                              *)

C4_OverwritePolicy ==
    [][ (LineDone /\ HasEq(Line) /\ NameOf(Line) # <<>>) =>
          LET X == NameOf(Line)
              p == expand(i, strip_quotes(RawOf(Line)), env)
          IN  p.ok =>
                /\ Literal(RawOf(Line)) => p.value = RawOf(Line)
                /\ IsSet(env', X)
                /\ flags = OptionsNone => env'[X] = p.value
                /\ flags = Preserve =>
                      env'[X] = IF IsSet(env, X) THEN env[X] ELSE p.value
      ]_vars

\* Preserve, A present with the empty value, A=x: A stays empty
WitC4 ==
    /\ pc = "done"
    /\ flags = Preserve
    /\ file.lines = << <<"A", "=", "x">> >>
    /\ IsSet(env0, <<"A">>) /\ env0[<<"A">>] = <<>>
    /\ IsSet(env, <<"A">>) /\ env[<<"A">>] = <<>>

-----------------------------------------------------------------------------
(* C5.  Quote stripping removes exactly one layer. *)

\* raw is VALUE wrapped in one pair of the same quote character
Quoted(raw) == Len(raw) >= 2 /\ raw[1] = raw[Len(raw)] /\ IsQuote(raw[1])

\* the text the quotes of raw enclose, or raw when it is not Quoted
Unquoted(raw) == IF Quoted(raw) THEN SubSeq(raw, 2, Len(raw) - 1) ELSE raw

\* C5 as stated: NAME="VALUE" and NAME='VALUE' load VALUE for every VALUE,
\* and a value that is not Quoted is loaded as it is.  Stated on the values
\* in which every "${" is closed, where an unclosed "${" plays no part.
CexC5 ==
    [][ ( /\ LineDone /\ HasEq(Line) /\ NameOf(Line) # <<>>
          /\ flags = OptionsNone
          /\ Dangling(RawOf(Line)) = {} )
          => /\ IsSet(env', NameOf(Line))
             /\ env'[NameOf(Line)] = Unquoted(RawOf(Line))
      ]_vars

\* C5 amended: the lines NAME="VALUE" and NAME='VALUE' are loaded as the
\* text VALUE is expanded: NAME holds VALUE when VALUE has no "${", the
\* expansion of VALUE when expansion succeeds, and NAME is not set when it
\* fails; a value that is not Quoted goes to expansion unchanged
C5_OneLayerStripped ==
    [][ (LineDone /\ HasEq(Line) /\ NameOf(Line) # <<>> /\ flags = OptionsNone)
          => LET VALUE == Unquoted(RawOf(Line))
                 p == expand(i, VALUE, env)
             IN  IF p.ok
                 THEN /\ IsSet(env', NameOf(Line))
                      /\ env'[NameOf(Line)] = p.value
                      /\ ~Contains(VALUE, <<"$", "{">>) => env'[NameOf(Line)] = VALUE
                 ELSE env' = env
      ]_vars

\* A=""x": the outer pair goes, the inner quote stays
WitC5 ==
    /\ pc = "done"
    /\ flags = OptionsNone
    /\ file.lines = << <<"A", "=", "\"", "\"", "x", "\"">> >>
    /\ IsSet(env, <<"A">>) /\ env[<<"A">>] = <<"\"", "x">>

-----------------------------------------------------------------------------
(* C6.  A well-formed line NAME=VALUE whose VALUE holds no ${ } reference  *)
(* and no quote, loaded with default flags, leaves NAME set to VALUE, the  *)
(* text after the first '='.                                               *)

CexC6 ==
    [][ ( /\ LineDone /\ HasEq(Line) /\ NameOf(Line) # <<>>
          /\ flags = OptionsNone
          /\ NoQuotes(RawOf(Line))
          /\ Refs(RawOf(Line)) = <<>> )
          => /\ IsSet(env', NameOf(Line))
             /\ env'[NameOf(Line)] = RawOf(Line)
      ]_vars

\* the same for the values that hold no "${" at all
C6_NoDollarBrace ==
    [][ ( /\ LineDone /\ HasEq(Line) /\ NameOf(Line) # <<>>
          /\ flags = OptionsNone
          /\ NoQuotes(RawOf(Line))
          /\ ~Contains(RawOf(Line), <<"$", "{">>) )
          => /\ IsSet(env', NameOf(Line))
             /\ env'[NameOf(Line)] = RawOf(Line)
      ]_vars

-----------------------------------------------------------------------------
(* C7.  dotenv::getenv(name, def) returns the value of name when name is   *)
(* present, the empty string included, and def when name is absent.        *)

-----------------------------------------------------------------------------
(* C8.  An unterminated "${" is not an error: expand returns ok = true     *)
(* when the references before it resolved, and the text from the "${" on   *)
(* is copied once, after the expansion of what precedes it.                *)

CexC8 ==
    (pc = "returned" /\ Dangling(ex.str) # {} /\ AllResolved(ex.str, env))
        => /\ ret.ok
           /\ ret.value = Subst(ex.str, env)

-----------------------------------------------------------------------------
(* C9.  The value returned with ok = false is the input with every         *)
(* resolved reference replaced by its value and every unresolved one left  *)
(* as its token.  Stated on the inputs in which every "${" is closed.      *)

CexC9 ==
    (pc = "returned" /\ ~ret.ok /\ Dangling(ex.str) = {})
        => ret.value = Subst(ex.str, env)

-----------------------------------------------------------------------------
(* C10.  A successful expansion. *)

NameChars == { "A", "B", "x" }

BareRef(str) == \E k \in 1 .. (Len(str) - 1) : str[k] = "$" /\ str[k + 1] \in NameChars

\* C10 as stated: with ok = true the returned value holds no reference to
\* an unset name and no bare $NAME
CexC10 ==
    (pc = "returned" /\ ret.ok)
        => /\ AllResolved(ret.value, env)
           /\ ~BareRef(ret.value)

\* C10 amended: with ok = true every "${" of the raw value is closed, every
\* reference of the raw value names a set variable, and the returned value
\* is the raw value with each reference replaced by the value of its name
C10_SuccessMeansResolved ==
    (pc = "returned" /\ ret.ok)
        => /\ Dangling(ex.str) = {}
           /\ AllResolved(ex.str, env)
           /\ ret.value = Subst(ex.str, env)

\* x${A}$ with A = "o" returns "xo$" and ok
WitC10 ==
    /\ pc = "returned"
    /\ ex.str = <<"x", "$", "{", "A", "}", "$">>
    /\ IsSet(env, <<"A">>) /\ env[<<"A">>] = <<"o">>
    /\ ret.ok
    /\ ret.value = <<"x", "o", "$">>

-----------------------------------------------------------------------------
(* C11.  Expansion is one pass from left to right: every reference of the  *)
(* raw value is looked up on its own, in order (each one whose name is     *)
(* unset gets its own diagnostic, in order), and when all of them resolve  *)
(* the result is the raw value with each reference replaced by the value   *)
(* of its name, inserted as it is: ${A}${B} gives value(A) then value(B),  *)
(* and a value that holds ${...} is not expanded again.                    *)

\* the diagnostics for the references k .. of str whose names are unset
RECURSIVE MissesFrom(_, _, _, _)
MissesFrom(str, e, iline, k) ==
    IF k > Len(Refs(str)) THEN <<>>
    ELSE LET r == Refs(str)[k]
         IN  (IF IsSet(e, RefName(str, r)) THEN <<>>
              ELSE <<Undefined(RefToken(str, r), iline)>>)
               \o MissesFrom(str, e, iline, k + 1)

C11_SinglePass ==
    (pc = "returned") =>
        /\ ret.cout = MissesFrom(ex.str, env, ex.iline, 1)
        /\ (Dangling(ex.str) = {} /\ AllResolved(ex.str, env))
              => /\ ret.ok
                 /\ ret.value = Subst(ex.str, env)
        /\ \A a \in DOMAIN env, b \in DOMAIN env :
              ex.str = Ref(a) \o Ref(b) => ret.value = env[a] \o env[b]

\* ${A}${B} with A = "${B}" and B = "p" returns "${B}p": the value of A is
\* inserted as it is
WitC11 ==
    /\ pc = "returned"
    /\ ex.str = <<"$", "{", "A", "}", "$", "{", "B", "}">>
    /\ IsSet(env, <<"A">>) /\ env[<<"A">>] = <<"$", "{", "B", "}">>
    /\ IsSet(env, <<"B">>) /\ env[<<"B">>] = <<"p">>
    /\ ret.ok
    /\ ret.value = <<"$", "{", "B", "}", "p">>

-----------------------------------------------------------------------------
(* C12.  On every line the loader goes on to expand and set, the name is   *)
(* not empty, holds no '=', and is the text of the line before its first   *)
(* '=', whitespace kept.                                                   *)

CexC12 ==
    [][ (LineDone /\ HasEq(Line))
          => /\ LineName(Line) # <<>>
             /\ ~HasEq(LineName(Line))
             /\ LineName(Line) = NameOf(Line)
      ]_vars

\* the same without the claim that the name is not empty
C12_NameBeforeFirstEq ==
    [][ (LineDone /\ HasEq(Line))
          => /\ ~HasEq(LineName(Line))
             /\ LineName(Line) = NameOf(Line)
      ]_vars

-----------------------------------------------------------------------------
(* C13.  References are resolved against the environment as it is when    *)
(* the line is processed, not against the text of the file: a reference    *)
(* to a name that is unset and that only a later line defines is           *)
(* unresolved (nothing is set, the diagnostic is written); a line          *)
(* Y=${X} that is set gives Y the value X has at that moment; and with     *)
(* Preserve a name that existed before the load has its old value at       *)
(* every line, so X = "old", X=new, Y=${X} leaves Y = "old".               *)

C13_ResolvedAtLineTime ==
    [][ (LineDone /\ HasEq(Line)) =>
          LET raw == RawOf(Line)
              Y == NameOf(Line)
          IN  /\ \A r \in Range(Refs(raw)) :
                    ( /\ ~IsSet(env, RefName(raw, r))
                      /\ \E j \in (i + 1) .. Len(file.lines) :
                            /\ HasEq(file.lines[j])
                            /\ NameOf(file.lines[j]) = RefName(raw, r) )
                    => /\ env' = env
                       /\ Undefined(RefToken(raw, r), i) \in Range(Said)
              /\ \A X \in DOMAIN env :
                    ( /\ raw = Ref(X)
                      /\ Y # <<>>
                      /\ (flags = OptionsNone \/ ~IsSet(env, Y)) )
                    => IsSet(env', Y) /\ env'[Y] = env[X]
              /\ \A X \in DOMAIN env0 :
                    flags = Preserve => env[X] = env0[X] /\ env'[X] = env0[X]
      ]_vars

\* Preserve, A = "o" before the load, the lines A=x and B=${A}: B is "o"
WitC13 ==
    /\ pc = "done"
    /\ flags = Preserve
    /\ file.lines = << <<"A", "=", "x">>, <<"B", "=", "$", "{", "A", "}">> >>
    /\ IsSet(env0, <<"A">>) /\ env0[<<"A">>] = <<"o">>
    /\ ~IsSet(env0, <<"B">>)
    /\ IsSet(env, <<"B">>) /\ env[<<"B">>] = <<"o">>

-----------------------------------------------------------------------------
(* The loader and expand side by side *)

InitRun == Init \/ InitExpand

NextRun ==
    do_init_open \/ do_init_line \/ do_init_eof \/ expand_iter \/ expand_return

SpecRun == InitRun /\ [][NextRun]_vars

-----------------------------------------------------------------------------
(* C14.  expand terminates on every input, and the loader processes every  *)
(* line of the file exactly once, in file order.                           *)

\* a bound on the iterations expand still has to make
Measure(s) ==
    IF s.finished THEN 0
    ELSE IF s.pos = npos THEN 1
    ELSE (Len(s.str) - s.pos) + 2

\* the 1-based positions >= the scan position where a "${" starts
StartsAhead(s) ==
    IF s.pos = npos THEN {}
    ELSE { a \in (s.pos + 1) .. (Len(s.str) - 1) : s.str[a] = "$" /\ s.str[a + 1] = "{" }

\* the 1-based positions of the '}' after the first "${" ahead
EndsAhead(s) ==
    { b \in (SetMin(StartsAhead(s)) + 2) .. Len(s.str) : s.str[b] = "}" }

\* the iteration from s to n moved the position forward to the '}' that
\* closes the first "${" ahead
MovedToClose(s, n) ==
    /\ StartsAhead(s) # {}
    /\ EndsAhead(s) # {}
    /\ ~n.finished
    /\ n.pos = SetMin(EndsAhead(s)) - 1
    /\ n.pos > s.pos

\* the iteration from s to n ended the loop
EndedLoop(s, n) == n.finished

\* the iteration from s to n met a "${" that no '}' follows: the position is
\* npos and the loop goes on
HitDangling(s, n) ==
    /\ StartsAhead(s) # {}
    /\ EndsAhead(s) = {}
    /\ ~n.finished
    /\ n.pos = npos

\* every line was processed once and in order: the messages are in the order
\* of the lines, each line with no '=' has one message of its own, and the
\* environment is the one that the lines, first to last, produce
LoaderDidAll ==
    /\ i = Len(file.lines) + 1
    /\ env = LoadLines(env0, flags, file.lines, 1)
    /\ \A k \in 1 .. (Len(out) - 1) : out[k].line <= out[k + 1].line
    /\ \A j \in 1 .. Len(file.lines) :
          LET said == { k \in 1 .. Len(out) :
                          out[k].kind = "illformed" /\ out[k].line = j }
          IN  /\ Cardinality(said) <= 1
              /\ ~HasEq(file.lines[j])
                    => \E k \in said : out[k] = IllFormed(j, file.lines[j])

LoaderInOrder ==
    /\ (pc = "loop") =>
          /\ i >= 1 /\ i <= Len(file.lines) + 1
          /\ env = LoadLines(env0, flags, SubSeq(file.lines, 1, i - 1), 1)
          /\ \A k \in 1 .. Len(out) : out[k].line < i
    /\ (pc = "done" /\ file.opens) => LoaderDidAll

\* C14 as stated: every iteration moves the position forward to the closing
\* '}' or ends the loop
CexC14 ==
    /\ (pc = "expand" /\ ~ex.finished) =>
          LET n == ExpandIter(ex, env)
          IN  /\ Measure(n) < Measure(ex)
              /\ MovedToClose(ex, n) \/ EndedLoop(ex, n)
    /\ LoaderInOrder

\* C14 amended: every iteration moves the position forward to the closing
\* '}', or sets it to npos at a "${" that no '}' follows (the iteration
\* after that ends the loop), or ends the loop; each brings the loop closer
\* to its end
C14_Terminates ==
    /\ (pc = "expand" /\ ~ex.finished) =>
          LET n == ExpandIter(ex, env)
          IN  /\ Measure(n) < Measure(ex)
              /\ MovedToClose(ex, n) \/ HitDangling(ex, n) \/ EndedLoop(ex, n)
              /\ HitDangling(ex, n) => EndedLoop(n, ExpandIter(n, env))
    /\ LoaderInOrder

\* x${ after its first iteration: the position is npos, the loop has not ended
WitC14 ==
    /\ pc = "expand"
    /\ ex.str = <<"x", "$", "{">>
    /\ ex.pos = npos
    /\ ~ex.finished
    /\ ex.nvar = 1

=============================================================================
